---- MODULE Spec2Model ----
(***************************************************************************)
(* State-machine model of the NIH RePORTER / PubMed extract-load scripts:  *)
(*   - pubmed_data_async_download.py : semaphore-bounded async downloader  *)
(*   - pubmed_pmid_to_doi.py         : sequential PubMed orchestrator and  *)
(*                                     the PMID->DOI link-table extractor  *)
(*   - nih_reporter_extraction.py    : NIH RePORTER flow                   *)
(* Each script is a separate program, so each has its own specification    *)
(* over its own variables; the variables of the other scripts stay at      *)
(* their initial values.                                                   *)
(***************************************************************************)
EXTENDS Integers, Sequences, FiniteSets, TLC

VARIABLES
    \* ---- pubmed_data_async_download.py ----
    pc,          \* position of each download_file task
    fail_count,  \* local fail_count of each task
    data,        \* local data of each task
    sem_value,   \* Semaphore._value
    waiters,     \* Semaphore._waiters (tasks whose future is queued)
    permits,     \* tasks currently inside the `async with sem` block
    hits,        \* number of GETs each URL's endpoint has received
    endpoint,    \* behaviour of each URL's endpoint
    sink,        \* content of data/<file_name> for each URL
    mainpc,      \* position of main()
    \* ---- pubmed_pmid_to_doi.py: main_function / el_single_link ----
    pm_links,           \* xml_gz_links[n:n+100], the file names of the batch
    pm_presence_check,  \* the presence_check argument of main_function
    pm_fs,              \* paths that exist under pubmed_data/
    pm_run,             \* number of main_function runs started
    pm_pc,              \* position inside main_function / el_single_link
    pm_idx,             \* index of the link the for loop is at
    pm_status,          \* state of each WorkUnit in the current run
    pm_downloads,       \* wget.download calls per WorkUnit in the current run
    pm_removed,         \* paths delete_file removed in the current run
    pm_completed,       \* names whose WorkUnit reached cleaned in an earlier run
    \* ---- nih_reporter_extraction.py: nih_reporter_dw ----
    nih_fs,             \* local paths that exist
    nih_gcs,            \* blobs in the GCS bucket
    nih_run,            \* number of nih_reporter_dw runs started
    nih_pc,             \* position inside nih_reporter_dw / fetch_and_save_parquet
    nih_idx,            \* index of the (data_type, year) pair the loops are at
    nih_retries,        \* retries of the download_file task used for this pair
    nih_status,         \* state of each WorkUnit in the current run
    nih_downloads,      \* wget.download calls per WorkUnit in the current run
    \* ---- pubmed_pmid_to_doi.py: pmid_to_doi_linktable ----
    ex_doc,             \* the ArticleIdList elements of the document, in order
    ex_malformed,       \* the input breaks off in a syntax error after them
    ex_pos,             \* index of the next element iterparse yields
    ex_article_list,    \* article_list
    ex_pc,              \* position inside pmid_to_doi_linktable
    ex_table            \* the frame written by to_parquet

asyncVars == <<pc, fail_count, data, sem_value, waiters, permits, hits,
               endpoint, sink, mainpc>>

pmVars == <<pm_links, pm_presence_check, pm_fs, pm_run, pm_pc, pm_idx,
            pm_status, pm_downloads, pm_removed, pm_completed>>

nihVars == <<nih_fs, nih_gcs, nih_run, nih_pc, nih_idx, nih_retries, nih_status,
             nih_downloads>>

exVars == <<ex_doc, ex_malformed, ex_pos, ex_article_list, ex_pc, ex_table>>

vars == <<asyncVars, pmVars, nihVars, exVars>>

(***************************************************************************)
(*                  pubmed_data_async_download.py                          *)
(***************************************************************************)

\* asyncio.Semaphore(3)
SemLimit == 3
\* `if fail_count > 10`
MaxFail == 10
\* number of tasks main() creates (10 in the script)
NumTasks == 4
\* number of consecutive failures of a "flaky" endpoint before it succeeds
FlakyFails == 5
\* number of URLs in a batch whose endpoint ever fails a GET
MaxFaulty == 1

Tasks == 1..NumTasks

\* Endpoint behaviours: "up" answers every GET, "flaky" raises FlakyFails
\* times and then answers with the file, "down" raises on every GET.
EndpointKinds == {"up", "flaky", "down"}
FaultyKinds == {"flaky", "down"}

\* What an answering endpoint can send: the file (status 200), an empty body,
\* or a non-success status whose body is an error page.  session.get does not
\* raise on a non-success status and the status assert is commented out, so
\* all three are read into data.
Bodies == {"payload", "empty", "errorpage"}

\* Possible outcomes of the k-th GET on an endpoint: "raise" is an exception
\* out of session.get / response.read, anything else is the value read into
\* data.
Responses(kind, k) ==
    CASE kind = "down" -> {"raise"}
      [] kind = "flaky" -> IF k <= FlakyFails THEN {"raise"} ELSE {"payload"}
      [] kind = "up" -> Bodies

\* Python truthiness of data: None and b"" are falsy.
Truthy(d) == d \notin {"None", "empty"}

\* A semaphore that never reports itself locked.
SemLockedNever == FALSE

\* Semaphore.locked()
SemLocked == sem_value = 0 \/ Len(waiters) > 0

\* Semaphore._wake_up_next: index in ws of the first waiter whose future is
\* not done (0 when there is none).
WakeIndex(ws, pcs) ==
    IF \E i \in 1..Len(ws) : pcs[ws[i]] = "waiting"
    THEN CHOOSE i \in 1..Len(ws) :
            /\ pcs[ws[i]] = "waiting"
            /\ \A j \in 1..(i - 1) : pcs[ws[j]] # "waiting"
    ELSE 0

RemoveWaiter(ws, t) == SelectSeq(ws, LAMBDA x : x # t)

\* The URLs of main, as their "/"-separated segments: base_url followed by
\* f"pubmed23n{i:04d}.xml.gz".
BaseUrl == <<"https:", "", "ftp.ncbi.nlm.nih.gov", "pubmed", "baseline">>
Name(i) == <<"pubmed23n", i, ".xml.gz">>
Url(i) == BaseUrl \o <<Name(i)>>

\* file_name = url.split("/")[-1]
FileName(url) == url[Len(url)]

\* The files under data/ that the tasks of main write.
SinkNames == {FileName(Url(t)) : t \in Tasks}

\* The content of the file a task writes to.
SinkOf(t) == sink[FileName(Url(t))]

\* A loop that stops at the first failed GET.
GiveUpAtOnce(fc) == fc > 0

\* The `if fail_count > 10` test of the except branch.
GiveUp(fc) == fc > MaxFail

AsyncStart ==
    /\ pc = [t \in Tasks |-> "created"]
    /\ fail_count = [t \in Tasks |-> 0]
    /\ data = [t \in Tasks |-> "None"]
    /\ sem_value = SemLimit
    /\ waiters = <<>>
    /\ permits = {}
    /\ hits = [t \in Tasks |-> 0]
    /\ endpoint \in {e \in [Tasks -> EndpointKinds] :
                        Cardinality({t \in Tasks : e[t] \in FaultyKinds}) <= MaxFaulty}
    /\ sink = [f \in SinkNames |-> "absent"]
    /\ mainpc = "gather"

\* The downloader is not running.
AsyncIdle ==
    /\ pc = <<>>
    /\ fail_count = <<>>
    /\ data = <<>>
    /\ sem_value = SemLimit
    /\ waiters = <<>>
    /\ permits = {}
    /\ hits = <<>>
    /\ endpoint = <<>>
    /\ sink = <<>>
    /\ mainpc = "idle"

\* A task's first step: `async with sem` -> Semaphore.acquire().  Tasks are
\* started by the event loop in creation order.
Start(t) ==
    /\ mainpc = "gather"
    /\ pc[t] = "created"
    /\ \A s \in 1..(t - 1) : pc[s] # "created"
    /\ IF ~SemLocked
       THEN /\ sem_value' = sem_value - 1
            /\ permits' = permits \cup {t}
            /\ pc' = [pc EXCEPT ![t] = "pacing"]
            /\ UNCHANGED waiters
       ELSE /\ waiters' = Append(waiters, t)
            /\ pc' = [pc EXCEPT ![t] = "waiting"]
            /\ UNCHANGED <<sem_value, permits>>
    /\ UNCHANGED <<fail_count, data, hits, endpoint, sink, mainpc>>
    /\ UNCHANGED <<pmVars, nihVars, exVars>>

\* A woken waiter resumes inside acquire(): it leaves the queue and, if the
\* counter is positive, wakes the next waiter; then the pacing sleep starts.
Resume(t) ==
    /\ pc[t] = "woken"
    /\ LET ws == RemoveWaiter(waiters, t)
           i == WakeIndex(ws, pc)
       IN /\ waiters' = ws
          /\ IF sem_value > 0 /\ i # 0
             THEN /\ sem_value' = sem_value - 1
                  /\ permits' = permits \cup {ws[i]}
                  /\ pc' = [pc EXCEPT ![t] = "pacing", ![ws[i]] = "woken"]
             ELSE /\ pc' = [pc EXCEPT ![t] = "pacing"]
                  /\ UNCHANGED <<sem_value, permits>>
    /\ UNCHANGED <<fail_count, data, hits, endpoint, sink, mainpc>>
    /\ UNCHANGED <<pmVars, nihVars, exVars>>

\* The pacing sleep ends: the session is opened, data = None, fail_count = 0
\* and the first GET is issued.
Pace(t) ==
    /\ pc[t] = "pacing"
    /\ data' = [data EXCEPT ![t] = "None"]
    /\ fail_count' = [fail_count EXCEPT ![t] = 0]
    /\ hits' = [hits EXCEPT ![t] = @ + 1]
    /\ pc' = [pc EXCEPT ![t] = "requesting"]
    /\ UNCHANGED <<sem_value, waiters, permits, endpoint, sink, mainpc>>
    /\ UNCHANGED <<pmVars, nihVars, exVars>>

\* The GET completes: either the body is read into data and the loop ends,
\* or the bare except counts the failure and breaks or sleeps.
Respond(t) ==
    /\ pc[t] = "requesting"
    /\ \E r \in Responses(endpoint[t], hits[t]) :
          IF r = "raise"
          THEN /\ fail_count' = [fail_count EXCEPT ![t] = @ + 1]
               /\ pc' = [pc EXCEPT ![t] =
                            IF GiveUp(fail_count[t] + 1) THEN "writing" ELSE "retrying"]
               /\ UNCHANGED data
          ELSE /\ data' = [data EXCEPT ![t] = r]
               /\ pc' = [pc EXCEPT ![t] = "writing"]
               /\ UNCHANGED fail_count
    /\ UNCHANGED <<sem_value, waiters, permits, hits, endpoint, sink, mainpc>>
    /\ UNCHANGED <<pmVars, nihVars, exVars>>

\* The retry sleep ends: `while data is None` holds, the next GET is issued.
Retry(t) ==
    /\ pc[t] = "retrying"
    /\ data[t] = "None"
    /\ hits' = [hits EXCEPT ![t] = @ + 1]
    /\ pc' = [pc EXCEPT ![t] = "requesting"]
    /\ UNCHANGED <<fail_count, data, sem_value, waiters, permits, endpoint, sink, mainpc>>
    /\ UNCHANGED <<pmVars, nihVars, exVars>>

\* A release that is skipped when no file was written.
SemReleaseLeak(t) ==
    IF ~Truthy(data[t])
    THEN /\ pc' = [pc EXCEPT ![t] = "done"]
         /\ UNCHANGED <<permits, sem_value>>
    ELSE LET i == WakeIndex(waiters, pc)
         IN IF i # 0
            THEN /\ pc' = [pc EXCEPT ![t] = "done", ![waiters[i]] = "woken"]
                 /\ permits' = (permits \ {t}) \cup {waiters[i]}
                 /\ UNCHANGED sem_value
            ELSE /\ pc' = [pc EXCEPT ![t] = "done"]
                 /\ permits' = permits \ {t}
                 /\ sem_value' = sem_value + 1

\* A release that, when the task was abandoned, takes every sibling down with
\* it: the unfinished tasks are cancelled and end without their result.
SemReleaseCancelling(t) ==
    IF data[t] = "None"
    THEN /\ pc' = [s \in Tasks |-> "done"]
         /\ permits' = {}
         /\ sem_value' = SemLimit
    ELSE LET i == WakeIndex(waiters, pc)
         IN IF i # 0
            THEN /\ pc' = [pc EXCEPT ![t] = "done", ![waiters[i]] = "woken"]
                 /\ permits' = (permits \ {t}) \cup {waiters[i]}
                 /\ UNCHANGED sem_value
            ELSE /\ pc' = [pc EXCEPT ![t] = "done"]
                 /\ permits' = permits \ {t}
                 /\ sem_value' = sem_value + 1

\* Exit of the `async with sem` block: Semaphore.release() increments the
\* counter and _wake_up_next hands it to the first waiter that is not done.
SemRelease(t) ==
    LET i == WakeIndex(waiters, pc)
    IN IF i # 0
       THEN /\ pc' = [pc EXCEPT ![t] = "done", ![waiters[i]] = "woken"]
            /\ permits' = (permits \ {t}) \cup {waiters[i]}
            /\ UNCHANGED sem_value
       ELSE /\ pc' = [pc EXCEPT ![t] = "done"]
            /\ permits' = permits \ {t}
            /\ sem_value' = sem_value + 1

\* After the loop: `if data:` writes the file; then the session closes and
\* the `async with sem` block exits.  The loop is left with data = None only
\* through `break`.
Finish(t) ==
    /\ pc[t] = "writing"
    /\ sink' = [sink EXCEPT ![FileName(Url(t))] =
                                IF Truthy(data[t]) THEN data[t] ELSE @]
    /\ SemRelease(t)
    /\ UNCHANGED <<fail_count, data, waiters, hits, endpoint, mainpc>>
    /\ UNCHANGED <<pmVars, nihVars, exVars>>

\* asyncio.gather returns once every task is done.
MainReturn ==
    /\ mainpc = "gather"
    /\ \A t \in Tasks : pc[t] = "done"
    /\ mainpc' = "returned"
    /\ UNCHANGED <<pc, fail_count, data, sem_value, waiters, permits, hits,
                   endpoint, sink>>
    /\ UNCHANGED <<pmVars, nihVars, exVars>>

TaskStep(t) ==
    \/ Start(t)
    \/ Resume(t)
    \/ Pace(t)
    \/ Respond(t)
    \/ Retry(t)
    \/ Finish(t)

AsyncNext ==
    \/ \E t \in Tasks : Start(t)
    \/ \E t \in Tasks : Resume(t)
    \/ \E t \in Tasks : Pace(t)
    \/ \E t \in Tasks : Respond(t)
    \/ \E t \in Tasks : Retry(t)
    \/ \E t \in Tasks : Finish(t)
    \/ MainReturn

(***************************************************************************)
(*        pubmed_pmid_to_doi.py: strings, paths and the orchestrator       *)
(***************************************************************************)

\* Strings are sequences of one-character strings.
XmlGz == <<".", "x", "m", "l", ".", "g", "z">>
DotParquet == <<".", "p", "a", "r", "q", "u", "e", "t">>

\* number of links of the listing that main_function iterates over
BatchLen == 3
\* number of times main_function is run over the same data directory
MaxRuns == 2

\* Base names of the files the listing offers; every link ends in ".xml.gz"
\* (get_xml_gz_links keeps only those).
BaseNames == { <<"p", "1">>, <<"p", "2">>, <<"x", "1">>, <<"1">>, <<"n", "g">> }
FileNames == { b \o XmlGz : b \in BaseNames }

Range(f) == { f[i] : i \in DOMAIN f }

\* s.split("/")[-1]
LastSegment(s) ==
    IF \E i \in 1..Len(s) : s[i] = "/"
    THEN LET k == CHOOSE i \in 1..Len(s) :
                     s[i] = "/" /\ \A j \in (i + 1)..Len(s) : s[j] # "/"
         IN SubSeq(s, k + 1, Len(s))
    ELSE s

\* s.rsplit(".", 1)[0]
RSplitDotHead(s) ==
    IF \E i \in 1..Len(s) : s[i] = "."
    THEN LET k == CHOOSE i \in 1..Len(s) :
                     s[i] = "." /\ \A j \in (i + 1)..Len(s) : s[j] # "."
         IN SubSeq(s, 1, k - 1)
    ELSE s

\* s.strip(chars): drops every leading and trailing character that is in chars.
Strip(s, chars) ==
    IF \A i \in 1..Len(s) : s[i] \in chars
    THEN <<>>
    ELSE LET a == CHOOSE i \in 1..Len(s) :
                     s[i] \notin chars /\ \A j \in 1..(i - 1) : s[j] \in chars
             b == CHOOSE i \in 1..Len(s) :
                     s[i] \notin chars /\ \A j \in (i + 1)..Len(s) : s[j] \in chars
         IN SubSeq(s, a, b)

\* A path root/area/name; "/".join(p.split("/")[:-2]) is its root.
Path(root, area, name) == [root |-> root, area |-> area, name |-> name]

\* download_file: f"{save_dir_prefix}/staging/{url.split('/')[-1]}", the url
\* being baseline_url + lnk.
DownloadPath(lnk) ==
    Path("pubmed_data", "staging", LastSegment(<<"/">> \o lnk))

\* uncompress_file: the extracted path derived from the staged path.
UncompressPath(file_path) ==
    Path(file_path.root, "extracted", RSplitDotHead(file_path.name))

\* pmid_to_doi_linktable: the parquet path derived from the xml path.
ParquetPath(xml_file_path) ==
    Path(xml_file_path.root, "data_lake", RSplitDotHead(xml_file_path.name) \o DotParquet)

\* data_lake_presence_check: the path it looks up for a file name.
PresenceCheckPath(file_name) ==
    Path("pubmed_data", "data_lake", Strip(file_name, Range(XmlGz)) \o DotParquet)

\* data_lake_presence_check(file_name)
DataLakePresenceCheck(file_name) == PresenceCheckPath(file_name) \in pm_fs

\* An el_single_link that deletes the inputs right after decompressing.
ElAfterDeleteFirst(step) ==
    CASE step = "download" -> "uncompress"
      [] step = "uncompress" -> "delete_extracted"
      [] step = "delete_extracted" -> "delete_staged"
      [] step = "delete_staged" -> "extract"
      [] step = "extract" -> "loop"

\* el_single_link: the statement that follows each statement.
ElAfter(step) ==
    CASE step = "download" -> "uncompress"
      [] step = "uncompress" -> "extract"
      [] step = "extract" -> "delete_extracted"
      [] step = "delete_extracted" -> "delete_staged"
      [] step = "delete_staged" -> "loop"

PmUnits == 1..BatchLen

PmIdle ==
    /\ pm_links = <<>>
    /\ pm_presence_check = TRUE
    /\ pm_fs = {}
    /\ pm_run = 0
    /\ pm_pc = "idle"
    /\ pm_idx = 0
    /\ pm_status = <<>>
    /\ pm_downloads = <<>>
    /\ pm_removed = {}
    /\ pm_completed = {}

\* Before the first run: an empty data directory and a listing of BatchLen
\* distinct file names.
PmStart ==
    /\ pm_links \in { l \in [PmUnits -> FileNames] :
                        \A i, j \in PmUnits : i # j => l[i] # l[j] }
    /\ pm_presence_check \in BOOLEAN
    /\ pm_fs = {}
    /\ pm_run = 0
    /\ pm_pc = "idle"
    /\ pm_idx = 0
    /\ pm_status = [i \in PmUnits |-> "pending"]
    /\ pm_downloads = [i \in PmUnits |-> 0]
    /\ pm_removed = {}
    /\ pm_completed = {}

\* Control passes to the next statement of el_single_link; when the function
\* returns, the for loop moves to the next link.
PmGoto(next) ==
    /\ pm_pc' = next
    /\ pm_idx' = IF next = "loop" THEN pm_idx + 1 ELSE pm_idx

\* An exception leaves el_single_link and main_function: the run is over.
PmRaise ==
    /\ pm_status' = [pm_status EXCEPT ![pm_idx] = "failed"]
    /\ pm_pc' = "idle"
    /\ UNCHANGED pm_idx

\* main_function is called: the listing is fetched and the loop begins.
PmRun ==
    /\ pm_pc = "idle"
    /\ pm_run < MaxRuns
    /\ pm_run' = pm_run + 1
    /\ pm_completed' = pm_completed \cup
                         { pm_links[i] : i \in { j \in PmUnits : pm_status[j] = "cleaned" } }
    /\ pm_idx' = 1
    /\ pm_status' = [i \in PmUnits |-> "pending"]
    /\ pm_downloads' = [i \in PmUnits |-> 0]
    /\ pm_removed' = {}
    /\ pm_pc' = "loop"
    /\ UNCHANGED <<pm_links, pm_presence_check, pm_fs>>
    /\ UNCHANGED <<asyncVars, nihVars, exVars>>

\* Head of the for loop: the presence check, `continue`, or el_single_link.
PmLoop ==
    /\ pm_pc = "loop"
    /\ IF pm_idx > BatchLen
       THEN /\ pm_pc' = "idle"
            /\ UNCHANGED <<pm_idx, pm_status>>
       ELSE IF pm_presence_check /\ DataLakePresenceCheck(pm_links[pm_idx])
            THEN /\ pm_status' = [pm_status EXCEPT ![pm_idx] = "skipped"]
                 /\ pm_idx' = pm_idx + 1
                 /\ UNCHANGED pm_pc
            ELSE /\ pm_pc' = "download"
                 /\ UNCHANGED <<pm_idx, pm_status>>
    /\ UNCHANGED <<pm_links, pm_presence_check, pm_fs, pm_run, pm_downloads,
                   pm_removed, pm_completed>>
    /\ UNCHANGED <<asyncVars, nihVars, exVars>>

\* download_file(url): an existing staged file is kept; otherwise
\* wget.download either stores the file or raises.
PmDownload ==
    /\ pm_pc = "download"
    /\ LET file_path == DownloadPath(pm_links[pm_idx])
       IN IF file_path \in pm_fs
          THEN /\ pm_status' = [pm_status EXCEPT ![pm_idx] = "fetched"]
               /\ PmGoto(ElAfter("download"))
               /\ UNCHANGED <<pm_fs, pm_downloads>>
          ELSE /\ pm_downloads' = [pm_downloads EXCEPT ![pm_idx] = @ + 1]
               /\ \E ok \in BOOLEAN :
                    IF ok
                    THEN /\ pm_fs' = pm_fs \cup {file_path}
                         /\ pm_status' = [pm_status EXCEPT ![pm_idx] = "fetched"]
                         /\ PmGoto(ElAfter("download"))
                    ELSE /\ PmRaise
                         /\ UNCHANGED pm_fs
    /\ UNCHANGED <<pm_links, pm_presence_check, pm_run, pm_removed, pm_completed>>
    /\ UNCHANGED <<asyncVars, nihVars, exVars>>

\* uncompress_file(file_path): the output file is opened for writing, then
\* the gzip stream is copied, which raises on a corrupt archive.
PmUncompress ==
    /\ pm_pc = "uncompress"
    /\ LET file_path == DownloadPath(pm_links[pm_idx])
       IN /\ pm_fs' = pm_fs \cup {UncompressPath(file_path)}
          /\ \E ok \in BOOLEAN :
               IF ok
               THEN /\ pm_status' = [pm_status EXCEPT ![pm_idx] = "decompressed"]
                    /\ PmGoto(ElAfter("uncompress"))
               ELSE PmRaise
    /\ UNCHANGED <<pm_links, pm_presence_check, pm_run, pm_downloads,
                   pm_removed, pm_completed>>
    /\ UNCHANGED <<asyncVars, nihVars, exVars>>

\* pmid_to_doi_linktable(xml_file_path): parsing, building the frame or
\* to_parquet may raise; otherwise the parquet file is written.
PmExtract ==
    /\ pm_pc = "extract"
    /\ LET xml_file_path == UncompressPath(DownloadPath(pm_links[pm_idx]))
       IN \E ok \in BOOLEAN :
            IF ok
            THEN /\ pm_fs' = pm_fs \cup {ParquetPath(xml_file_path)}
                 /\ pm_status' = [pm_status EXCEPT ![pm_idx] = "published"]
                 /\ PmGoto(ElAfter("extract"))
            ELSE /\ PmRaise
                 /\ UNCHANGED pm_fs
    /\ UNCHANGED <<pm_links, pm_presence_check, pm_run, pm_downloads,
                   pm_removed, pm_completed>>
    /\ UNCHANGED <<asyncVars, nihVars, exVars>>

\* delete_file(fpath): os.remove raises when the file does not exist.
PmDeleteExtracted ==
    /\ pm_pc = "delete_extracted"
    /\ LET fpath == UncompressPath(DownloadPath(pm_links[pm_idx]))
       IN IF fpath \in pm_fs
          THEN /\ pm_fs' = pm_fs \ {fpath}
               /\ pm_removed' = pm_removed \cup {fpath}
               /\ PmGoto(ElAfter("delete_extracted"))
               /\ UNCHANGED pm_status
          ELSE /\ PmRaise
               /\ UNCHANGED <<pm_fs, pm_removed>>
    /\ UNCHANGED <<pm_links, pm_presence_check, pm_run, pm_downloads, pm_completed>>
    /\ UNCHANGED <<asyncVars, nihVars, exVars>>

\* delete_file(downloaded_file_path), the return of el_single_link and the
\* next iteration of the loop.
PmDeleteStaged ==
    /\ pm_pc = "delete_staged"
    /\ LET fpath == DownloadPath(pm_links[pm_idx])
       IN IF fpath \in pm_fs
          THEN /\ pm_fs' = pm_fs \ {fpath}
               /\ pm_removed' = pm_removed \cup {fpath}
               /\ PmGoto(ElAfter("delete_staged"))
               /\ pm_status' = [pm_status EXCEPT ![pm_idx] =
                                   IF @ = "published" THEN "cleaned" ELSE @]
          ELSE /\ PmRaise
               /\ UNCHANGED <<pm_fs, pm_removed>>
    /\ UNCHANGED <<pm_links, pm_presence_check, pm_run, pm_downloads, pm_completed>>
    /\ UNCHANGED <<asyncVars, nihVars, exVars>>

PmNext ==
    \/ PmRun
    \/ PmLoop
    \/ PmDownload
    \/ PmUncompress
    \/ PmExtract
    \/ PmDeleteExtracted
    \/ PmDeleteStaged


(***************************************************************************)
(*                     nih_reporter_extraction.py                          *)
(***************************************************************************)

\* A path is the sequence of its "/"-separated segments, a segment the
\* sequence of its "."-separated parts: "a/b/1985.zip" is
\* << <<"a">>, <<"b">>, <<"1985", "zip">> >>.

\* @task(retries=3) of download_file
DownloadRetries == 3
\* number of years in data_years
NumYears == 2
\* number of times nih_reporter_dw is run over the same data directory
NihMaxRuns == 2

YearNames == <<"1985", "1986", "1987", "1988">>
NihTypes == <<"projects", "abstracts">>

\* The (data_type, year) pairs in the order of the nested for loops.
NihUnits == 1..(Len(NihTypes) * NumYears)
NihType(w) == NihTypes[((w - 1) \div NumYears) + 1]
NihYear(w) == YearNames[((w - 1) % NumYears) + 1]

\* fetch_and_save_parquet is called without replace_existing_file, which
\* defaults to False.
ReplaceExistingFile == FALSE

\* "/".join(p.split("/")[:-k]) and p.split("/")[-1]
DropLast(p, k) == SubSeq(p, 1, Len(p) - k)
Last(p) == p[Len(p)]

\* download_file: f"{save_dir_prefix}/{data_type}/{data_year}.zip"
NihZipPath(w) == << <<"nih_reporter_data">>, <<NihType(w)>>, <<NihYear(w), "zip">> >>

\* fetch_and_save_parquet / zip_to_parquet: folder + name + ".parquet"
NihParquetPath(file_path) ==
    DropLast(file_path, 1) \o << <<"extracted">>, Last(file_path) \o <<"parquet">> >>

\* nih_reporter_dw: the compressed file path derived from the saved path.
NihCompressedPath(saved_file_path) ==
    DropLast(saved_file_path, 2) \o << DropLast(Last(saved_file_path), 1) >>

NihIdle ==
    /\ nih_fs = {}
    /\ nih_gcs = {}
    /\ nih_run = 0
    /\ nih_pc = "off"
    /\ nih_idx = 0
    /\ nih_retries = 0
    /\ nih_status = <<>>
    /\ nih_downloads = <<>>

\* Before the first run: nothing on disk, nothing in the bucket.
NihStart ==
    /\ nih_fs = {}
    /\ nih_gcs = {}
    /\ nih_run = 0
    /\ nih_pc = "idle"
    /\ nih_idx = 0
    /\ nih_retries = 0
    /\ nih_status = [w \in NihUnits |-> "pending"]
    /\ nih_downloads = [w \in NihUnits |-> 0]

\* A task raises: the subflow and the flow fail, the run is over.
NihRaise ==
    /\ nih_status' = [nih_status EXCEPT ![nih_idx] = "failed"]
    /\ nih_pc' = "idle"

\* nih_reporter_dw is called.
NihRun ==
    /\ nih_pc = "idle"
    /\ nih_run < NihMaxRuns
    /\ nih_run' = nih_run + 1
    /\ nih_idx' = 1
    /\ nih_retries' = 0
    /\ nih_status' = [w \in NihUnits |-> "pending"]
    /\ nih_downloads' = [w \in NihUnits |-> 0]
    /\ nih_pc' = "loop"
    /\ UNCHANGED <<nih_fs, nih_gcs>>
    /\ UNCHANGED <<asyncVars, pmVars, exVars>>

\* Head of the nested for loops: fetch_and_save_parquet is entered.
NihLoop ==
    /\ nih_pc = "loop"
    /\ IF nih_idx > Len(NihTypes) * NumYears
       THEN nih_pc' = "idle"
       ELSE nih_pc' = "download"
    /\ nih_retries' = 0
    /\ UNCHANGED <<nih_fs, nih_gcs, nih_run, nih_idx, nih_status, nih_downloads>>
    /\ UNCHANGED <<asyncVars, pmVars, exVars>>

\* download_file task: an existing zip is kept; otherwise wget.download
\* stores the file or raises, and the task is retried DownloadRetries times.
NihDownload ==
    /\ nih_pc = "download"
    /\ LET file_path == NihZipPath(nih_idx)
       IN IF file_path \in nih_fs /\ ~ReplaceExistingFile
          THEN /\ nih_pc' = "check"
               /\ UNCHANGED <<nih_fs, nih_downloads, nih_retries, nih_status>>
          ELSE /\ nih_downloads' = [nih_downloads EXCEPT ![nih_idx] = @ + 1]
               /\ \E ok \in BOOLEAN :
                    IF ok
                    THEN /\ nih_fs' = nih_fs \cup {file_path}
                         /\ nih_pc' = "check"
                         /\ UNCHANGED <<nih_retries, nih_status>>
                    ELSE IF nih_retries < DownloadRetries
                         THEN /\ nih_retries' = nih_retries + 1
                              /\ UNCHANGED <<nih_fs, nih_pc, nih_status>>
                         ELSE /\ NihRaise
                              /\ UNCHANGED <<nih_fs, nih_retries>>
    /\ UNCHANGED <<nih_gcs, nih_run, nih_idx>>
    /\ UNCHANGED <<asyncVars, pmVars, exVars>>

\* fetch_and_save_parquet: an existing parquet file is returned as it is.
NihCheck ==
    /\ nih_pc = "check"
    /\ IF NihParquetPath(NihZipPath(nih_idx)) \in nih_fs /\ ReplaceExistingFile = FALSE
       THEN /\ nih_status' = [nih_status EXCEPT ![nih_idx] = "skipped"]
            /\ nih_pc' = "delete"
       ELSE /\ nih_pc' = "convert"
            /\ UNCHANGED nih_status
    /\ UNCHANGED <<nih_fs, nih_gcs, nih_run, nih_idx, nih_retries, nih_downloads>>
    /\ UNCHANGED <<asyncVars, pmVars, exVars>>

\* zip_to_parquet task: reads the zip and writes the parquet file, or raises.
NihConvert ==
    /\ nih_pc = "convert"
    /\ \E ok \in BOOLEAN :
         IF ok
         THEN /\ nih_fs' = nih_fs \cup {NihParquetPath(NihZipPath(nih_idx))}
              /\ nih_status' = [nih_status EXCEPT ![nih_idx] = "converted"]
              /\ nih_pc' = "gcs"
         ELSE /\ NihRaise
              /\ UNCHANGED nih_fs
    /\ UNCHANGED <<nih_gcs, nih_run, nih_idx, nih_retries, nih_downloads>>
    /\ UNCHANGED <<asyncVars, pmVars, exVars>>

\* write_gcs task (gcs_write=True, overwrite_file_in_gcs=False): a blob that
\* is already in the bucket is kept, otherwise the upload succeeds or raises.
NihGcs ==
    /\ nih_pc = "gcs"
    /\ LET path == NihParquetPath(NihZipPath(nih_idx))
       IN IF path \in nih_gcs
          THEN /\ nih_status' = [nih_status EXCEPT ![nih_idx] = "published"]
               /\ nih_pc' = "delete"
               /\ UNCHANGED nih_gcs
          ELSE \E ok \in BOOLEAN :
                 IF ok
                 THEN /\ nih_gcs' = nih_gcs \cup {path}
                      /\ nih_status' = [nih_status EXCEPT ![nih_idx] = "published"]
                      /\ nih_pc' = "delete"
                 ELSE /\ NihRaise
                      /\ UNCHANGED nih_gcs
    /\ UNCHANGED <<nih_fs, nih_run, nih_idx, nih_retries, nih_downloads>>
    /\ UNCHANGED <<asyncVars, pmVars, exVars>>

\* nih_reporter_dw: delete_file task on the compressed file, then the next
\* pair; os.remove raises when the file does not exist.
NihDelete ==
    /\ nih_pc = "delete"
    /\ LET fpath == NihCompressedPath(NihParquetPath(NihZipPath(nih_idx)))
       IN IF fpath \in nih_fs
          THEN /\ nih_fs' = nih_fs \ {fpath}
               /\ nih_status' = [nih_status EXCEPT ![nih_idx] =
                                    IF @ = "published" THEN "cleaned" ELSE @]
               /\ nih_idx' = nih_idx + 1
               /\ nih_pc' = "loop"
          ELSE /\ NihRaise
               /\ UNCHANGED <<nih_fs, nih_idx>>
    /\ UNCHANGED <<nih_gcs, nih_run, nih_retries, nih_downloads>>
    /\ UNCHANGED <<asyncVars, pmVars, exVars>>

NihNext ==
    \/ NihRun
    \/ NihLoop
    \/ NihDownload
    \/ NihCheck
    \/ NihConvert
    \/ NihGcs
    \/ NihDelete

(***************************************************************************)
(*             pubmed_pmid_to_doi.py: pmid_to_doi_linktable                *)
(***************************************************************************)

\* number of ArticleIdList elements in a document
MaxElems == 3

\* An ArticleIdList element is described by what the two xpath queries find:
\* "absent" when no ArticleId of that IdType exists, "None" when the first one
\* has no text, otherwise its text.
PmidTexts == {"absent", "None", "11", "22"}
DoiTexts == {"absent", "None", "d1"}
Elements == [pmid : PmidTexts, doi : DoiTexts]
Documents == UNION { [1..n -> Elements] : n \in 0..MaxElems }

\* A frame: its column count and its rows.
\* pd.DataFrame(article_list): no columns for an empty list, else one column
\* per tuple field.
DataFrame(l) == [ncols |-> IF Len(l) = 0 THEN 0 ELSE 2, rows |-> l]

\* df.dropna(): drops every row that holds a None.
DropNa(df) ==
    [df EXCEPT !.rows = SelectSeq(@, LAMBDA r : r[1] # "None" /\ r[2] # "None")]

\* df.columns = ["PMID", "DOI"] raises ValueError unless df has two columns.
ColumnsAssignable(df) == df.ncols = 2

\* No parquet file has been written.
NoTable == [written |-> FALSE, columns |-> <<>>, rows |-> <<>>]

\* A parser that ends the stream silently where the input breaks off.
StreamExhaustedOrBroken == ex_pos > Len(ex_doc)

\* The for loop over ET.iterparse ends normally: every element was yielded
\* and the parser reached the end of a well-formed input.
StreamExhausted == ex_pos > Len(ex_doc) /\ ~ex_malformed

ExIdle ==
    /\ ex_doc = <<>>
    /\ ex_malformed = FALSE
    /\ ex_pos = 0
    /\ ex_article_list = <<>>
    /\ ex_pc = "off"
    /\ ex_table = NoTable

\* pmid_to_doi_linktable is called on a document.
ExStart ==
    /\ ex_doc \in Documents
    /\ ex_malformed \in BOOLEAN
    /\ ex_pos = 1
    /\ ex_article_list = <<>>
    /\ ex_pc = "parse"
    /\ ex_table = NoTable

\* One iteration of the iterparse loop: [0] raises IndexError when no pubmed
\* ArticleId exists; a missing doi ArticleId gives None.
ExElement ==
    /\ ex_pc = "parse"
    /\ ex_pos <= Len(ex_doc)
    /\ LET element == ex_doc[ex_pos]
           article_id_pubmed == element.pmid
           article_id_doi == IF element.doi = "absent" THEN "None" ELSE element.doi
       IN IF element.pmid = "absent"
          THEN /\ ex_pc' = "raised"
               /\ UNCHANGED <<ex_pos, ex_article_list>>
          ELSE /\ ex_article_list' =
                     Append(ex_article_list, <<article_id_pubmed, article_id_doi>>)
               /\ ex_pos' = ex_pos + 1
               /\ UNCHANGED ex_pc
    /\ UNCHANGED <<ex_doc, ex_malformed, ex_table>>
    /\ UNCHANGED <<asyncVars, pmVars, nihVars>>

\* ET.iterparse raises XMLSyntaxError out of the for loop: the parser meets
\* the syntax error when it reads the chunk that holds it, which may be
\* before the elements of that chunk were yielded.
ExParseError ==
    /\ ex_pc = "parse"
    /\ ex_malformed
    /\ ex_pc' = "raised"
    /\ UNCHANGED <<ex_doc, ex_malformed, ex_pos, ex_article_list, ex_table>>
    /\ UNCHANGED <<asyncVars, pmVars, nihVars>>

\* After the loop: the frame is built, rows with None are dropped, the
\* columns are named and the frame is written with to_parquet.
ExPublish ==
    /\ ex_pc = "parse"
    /\ StreamExhausted
    /\ LET df == DropNa(DataFrame(ex_article_list))
       IN IF ColumnsAssignable(df)
          THEN /\ ex_table' = [written |-> TRUE, columns |-> <<"PMID", "DOI">>,
                             rows |-> df.rows]
               /\ ex_pc' = "done"
          ELSE /\ ex_pc' = "raised"
               /\ UNCHANGED ex_table
    /\ UNCHANGED <<ex_doc, ex_malformed, ex_pos, ex_article_list>>
    /\ UNCHANGED <<asyncVars, pmVars, nihVars>>

ExNext ==
    \/ ExElement
    \/ ExParseError
    \/ ExPublish

(***************************************************************************)
(*                          Specifications                                 *)
(***************************************************************************)

AsyncInit == AsyncStart /\ PmIdle /\ NihIdle /\ ExIdle

SpecAsync == AsyncInit /\ [][AsyncNext]_vars

PmInit == PmStart /\ AsyncIdle /\ NihIdle /\ ExIdle

SpecPubmed == PmInit /\ [][PmNext]_vars

NihInit == NihStart /\ AsyncIdle /\ PmIdle /\ ExIdle

SpecNih == NihInit /\ [][NihNext]_vars

ExInit == ExStart /\ AsyncIdle /\ PmIdle /\ NihIdle

SpecExtract == ExInit /\ [][ExNext]_vars

\* Scheduling of the event loop: every task that can take a step eventually
\* takes it (sleeps end, GETs complete or raise), and gather returns.
FairSpecAsync ==
    /\ SpecAsync
    /\ \A t \in Tasks : WF_vars(TaskStep(t))
    /\ WF_vars(MainReturn)

HoldingPcs == {"pacing", "requesting", "retrying", "writing"}

\* C1: during a batch run at most SemLimit tasks hold a permit (are pacing,
\* requesting, retrying or writing), the counter accounts for exactly the
\* permits handed out, and a task with a GET in flight holds a permit.
C1_PermitCap ==
    /\ Cardinality(permits) <= SemLimit
    /\ Cardinality({t \in Tasks : pc[t] \in HoldingPcs}) <= SemLimit
    /\ sem_value = SemLimit - Cardinality(permits)
    /\ \A t \in Tasks : pc[t] \in HoldingPcs => t \in permits

C1_Witness ==
    /\ Cardinality(permits) = SemLimit
    /\ \E t \in Tasks : pc[t] = "waiting"
    /\ \E t \in Tasks : pc[t] = "requesting" /\ fail_count[t] > 0

\* C2: every permit acquired by download_file is eventually released on
\* every exit path (file written, empty result, abandonment), every task
\* waiting on the semaphore eventually acquires it, a finished task holds no
\* permit, and once all tasks have finished the semaphore is back at SemLimit.
C2_PermitReleased ==
    /\ \A t \in Tasks : (t \in permits) ~> (pc[t] = "done" /\ t \notin permits)
    /\ \A t \in Tasks : (pc[t] = "waiting") ~> (t \in permits)
    /\ [](\A t \in Tasks : pc[t] = "done" => t \notin permits)
    /\ []((\A t \in Tasks : pc[t] = "done") => sem_value = SemLimit)
    /\ <>(mainpc = "returned")

C2_Witness ==
    /\ mainpc = "returned"
    /\ sem_value = SemLimit
    /\ \E t \in Tasks : fail_count[t] > MaxFail /\ data[t] = "None"
    /\ \E t \in Tasks : data[t] = "empty"
    /\ \E t \in Tasks : SinkOf(t) = "payload"

\* C3: against an endpoint whose every GET fails, download_file gives up
\* after exactly MaxFail GETs with nothing written and its permit released.
C3_GivesUpAfterMaxFailGets ==
    \A t \in Tasks :
        (endpoint[t] = "down" /\ pc[t] = "done") =>
            /\ hits[t] = MaxFail
            /\ SinkOf(t) = "absent"
            /\ t \notin permits

\* C4: a response with a non-success status is treated as a failed attempt:
\* its body is never taken as the result nor written to the sink.
C4_BadStatusIsFailure ==
    \A t \in Tasks : data[t] # "errorpage" /\ SinkOf(t) # "errorpage"

\* The staged and the decompressed file of the i-th WorkUnit.
StagedOf(i) == DownloadPath(pm_links[i])
ExtractedOf(i) == UncompressPath(DownloadPath(pm_links[i]))

\* C5: in the sequential batch driver a failed WorkUnit never aborts the
\* batch: when main_function is over, every WorkUnit after a failed one has
\* been processed (cleaned, skipped or failed on its own).
C5_FailureDoesNotAbortBatch ==
    (pm_run > 0 /\ pm_pc = "idle") =>
        \A i, j \in PmUnits :
            (pm_status[i] = "failed" /\ i < j) =>
                pm_status[j] \in {"cleaned", "skipped", "failed"}

\* C6: with presence_check on, a WorkUnit that an earlier run took through
\* publish and cleanup is skipped by a later run: nothing is downloaded,
\* extracted or deleted for it.
C6_SecondRunSkips ==
    pm_presence_check =>
        \A i \in PmUnits :
            pm_links[i] \in pm_completed =>
                /\ pm_status[i] \in {"pending", "skipped"}
                /\ pm_downloads[i] = 0
                /\ StagedOf(i) \notin pm_removed
                /\ ExtractedOf(i) \notin pm_removed

\* C7: in the NIH RePORTER flow no download of a WorkUnit's zip is issued
\* while its parquet file exists (replace_existing_file being False).
C7_NoFetchWhenParquetPresent ==
    [][\A w \in NihUnits :
          (nih_downloads'[w] > nih_downloads[w] /\ ~ReplaceExistingFile) =>
              NihParquetPath(NihZipPath(w)) \notin nih_fs]_vars

\* C8: in el_single_link the staged and the decompressed file are deleted
\* only after the Table was published, both are deleted once it was (a
\* published WorkUnit is always on its way through the two deletions), and
\* after a failed download, decompression, extraction or publish neither
\* file is deleted.
C8_CleanupOnlyAfterPublish ==
    \A i \in PmUnits :
        /\ (StagedOf(i) \in pm_removed \/ ExtractedOf(i) \in pm_removed) =>
               pm_status[i] \in {"published", "cleaned"}
        /\ pm_status[i] = "cleaned" =>
               /\ {StagedOf(i), ExtractedOf(i)} \subseteq pm_removed
               /\ StagedOf(i) \notin pm_fs /\ ExtractedOf(i) \notin pm_fs
        /\ pm_status[i] = "published" =>
               /\ pm_idx = i
               /\ pm_pc \in {"delete_extracted", "delete_staged"}
               /\ ParquetPath(ExtractedOf(i)) \in pm_fs
        /\ pm_status[i] = "failed" =>
               /\ StagedOf(i) \notin pm_removed
               /\ ExtractedOf(i) \notin pm_removed

C8_Witness ==
    \E i, j \in PmUnits :
        /\ pm_status[i] = "cleaned"
        /\ pm_status[j] = "failed"
        /\ StagedOf(j) \in pm_fs
        /\ ExtractedOf(j) \in pm_fs

\* The rows the claim expects for a document: one <<PMID, DOI>> per element
\* that carries a DOI, in document order.
HasPmid(e) == e.pmid \notin {"absent", "None"}
HasDoi(e) == e.doi \notin {"absent", "None"}
ExpectedRows(doc) ==
    LET withDoi == SelectSeq(doc, HasDoi)
    IN [i \in 1..Len(withDoi) |-> <<withDoi[i].pmid, withDoi[i].doi>>]

\* C9: for a document of K ArticleIdList elements, each with a PMID, M of
\* which carry a DOI, pmid_to_doi_linktable publishes a Table of exactly those
\* M rows in document order, none with an absent PMID or DOI.
C9_TableHasTheRowsWithDoi ==
    (/\ ~ex_malformed
     /\ \A k \in 1..Len(ex_doc) : HasPmid(ex_doc[k])
     /\ ex_pc \in {"done", "raised"}) =>
        /\ ex_pc = "done"
        /\ ex_table.written
        /\ ex_table.rows = ExpectedRows(ex_doc)
        /\ \A k \in 1..Len(ex_table.rows) :
              ex_table.rows[k][1] # "None" /\ ex_table.rows[k][2] # "None"

\* C10: for a document without any ArticleIdList element pmid_to_doi_linktable
\* completes and writes an empty Table with the columns PMID and DOI.
C10_EmptyDocumentGivesEmptyTable ==
    (ex_doc = <<>> /\ ~ex_malformed /\ ex_pc \in {"done", "raised"}) =>
        /\ ex_pc = "done"
        /\ ex_table = [written |-> TRUE, columns |-> <<"PMID", "DOI">>, rows |-> <<>>]

\* The task has exhausted its retry budget.
Abandoned(t) == fail_count[t] > MaxFail /\ data[t] = "None"

\* The task ended on its own terms: with its body written, with an empty
\* body, or abandoned after its own failures.
OwnCompletion(t) ==
    \/ Truthy(data[t]) /\ SinkOf(t) = data[t]
    \/ data[t] = "empty" /\ SinkOf(t) = "absent"
    \/ Abandoned(t) /\ SinkOf(t) = "absent"

\* C12: a task that exhausts its retry budget is abandoned without
\* cancelling or failing a sibling: the step that ends the abandoned task
\* changes nothing of any other task but to hand its permit to a waiter,
\* every task that ends has ended on its own terms, and once a task is
\* abandoned every task still runs to its end and gather returns.
C12_AbandonSparesSiblings ==
    /\ [](\A t \in Tasks : pc[t] = "done" => OwnCompletion(t))
    /\ [][\A t \in Tasks :
            (Abandoned(t) /\ pc[t] = "writing" /\ pc'[t] = "done") =>
                \A s \in Tasks \ {t} :
                    /\ pc'[s] = pc[s] \/ (pc[s] = "waiting" /\ pc'[s] = "woken")
                    /\ data'[s] = data[s]
                    /\ fail_count'[s] = fail_count[s]
                    /\ sink'[Name(s)] = sink[Name(s)]]_vars
    /\ (\E t \in Tasks : Abandoned(t)) ~>
           (mainpc = "returned" /\ \A s \in Tasks : pc[s] = "done" /\ OwnCompletion(s))

C12_Witness ==
    /\ mainpc = "returned"
    /\ \E t \in Tasks :
          /\ Abandoned(t)
          /\ pc[t] = "done"
          /\ \A s \in Tasks \ {t} : pc[s] = "done" /\ SinkOf(s) = "payload"

\* C13: against an endpoint that fails FlakyFails consecutive GETs and then
\* answers with a non-empty body, download_file has made exactly
\* FlakyFails + 1 GETs when it ends, it ends with the body as its data, and it
\* writes that body once, to the file named after the last segment of its URL;
\* no file changes but by such a write.
C13_FlakyEndpointSucceeds ==
    /\ [](\A t \in Tasks :
            endpoint[t] = "flaky" =>
                /\ hits[t] <= FlakyFails + 1
                /\ pc[t] = "done" =>
                       /\ hits[t] = FlakyFails + 1
                       /\ fail_count[t] = FlakyFails
                       /\ data[t] = "payload"
                       /\ sink[Name(t)] = "payload")
    /\ [][\A f \in DOMAIN sink :
            sink'[f] # sink[f] =>
                \E t \in Tasks :
                    /\ f = Name(t)
                    /\ pc[t] = "writing" /\ pc'[t] = "done"
                    /\ sink[f] = "absent"
                    /\ sink'[f] = data[t]]_vars

C13_Witness ==
    \E t \in Tasks :
        /\ endpoint[t] = "flaky"
        /\ pc[t] = "done"
        /\ hits[t] = FlakyFails + 1
        /\ sink[Name(t)] = "payload"
        /\ \A f \in DOMAIN sink \ {Name(t)} : sink[f] = "absent"

\* C14: for every source file name, the data-lake path that
\* data_lake_presence_check looks up is the path pmid_to_doi_linktable writes
\* for the WorkUnit downloaded from it, so a published WorkUnit is found
\* present.
C14_PresenceCheckFindsPublished ==
    \A i \in PmUnits :
        pm_status[i] \in {"published", "cleaned"} =>
            /\ PresenceCheckPath(pm_links[i]) = ParquetPath(ExtractedOf(i))
            /\ DataLakePresenceCheck(pm_links[i])

\* C11: if parsing fails at any position, pmid_to_doi_linktable ends in a
\* failure and writes no Table, however many records it had extracted: a
\* Table is written only when the whole stream was consumed without a parse
\* error.
C11_NoTableOnParseFailure ==
    /\ ex_table.written =>
           /\ ~ex_malformed
           /\ ex_pos > Len(ex_doc)
           /\ ex_pc = "done"
    /\ ex_malformed =>
           /\ ex_table = NoTable
           /\ ex_pc \in {"parse", "raised"}

C11_Witness ==
    /\ ex_malformed
    /\ ex_pc = "raised"
    /\ Len(ex_article_list) >= 2
    /\ ex_pos > Len(ex_doc)
    /\ \E k \in 1..Len(ex_doc) : HasDoi(ex_doc[k])
    /\ ex_table = NoTable

====
